---- MODULE Spec2Model ----
(***************************************************************************)
(* Dynamic schema and invocation engine of caipi: the contract compiler    *)
(* (payload_model), the form parsers, the invoke handler of src/app.py     *)
(* with its credit check and debit, and the document store it works on.    *)
(*                                                                         *)
(* Values are tokens: "s:x" a text string, "s:1" a numeric string, "n:1"   *)
(* the JSON/int number 1, "f:1.0" the float 1.0, "b:T" true, "None" null.  *)
(* A dict is a function from key strings to values.                        *)
(***************************************************************************)
EXTENDS Integers, Sequences, FiniteSets, TLC

\* ------------------------------------------------------------------ bounds
NumCalls == 2        \* invoke calls of the general specification
MaxAvail == 2        \* largest pre-paid balance of the account
MaxProjects == 1     \* projects created in one behaviour
MaxFields == 2       \* rows of a contract definition form under check
MaxInvs == 2         \* Invocations in a list handed to refresh
MaxSessions == 2     \* sessions issued in one behaviour
MaxEvents == 4       \* login callbacks and logouts in one behaviour
NumRacers == 5       \* overlapping invoke calls on one account
RaceAvail == 3       \* largest balance of the account they race on

\* --------------------------------------------------------------- constants
Rate35 == 500        \* model2credits["gpt-35-turbo"]
Rate4 == 50          \* model2credits["gpt-4"]

None == "None"
EmptyDict == [k \in {} |-> None]
UserIds == {"u1"}
Calls == 1..NumCalls

\* ------------------------------------------------------ Field Type Registry
l2p ==
  [t \in {"Text", "Number", "Boolean", "str", "int", "float", "bool", "list"} |->
     CASE t = "Text" -> "str"
       [] t = "Number" -> "float"
       [] t = "Boolean" -> "bool"
       [] OTHER -> t]

\* mutant: a model without an entry is metered at the rate of gpt-35-turbo
model2credits_default ==
  [m \in {"gpt-35-turbo", "gpt-4", "gpt-3.5-turbo"} |->
     IF m = "gpt-4" THEN Rate4 ELSE Rate35]

\* number of chars per credit per model
model2credits == [m \in {"gpt-35-turbo", "gpt-4"} |->
                    IF m = "gpt-35-turbo" THEN Rate35 ELSE Rate4]

\* ---------------------------------------------------------- Schema Compiler
\* payload_model: name -> (python type, default); KeyError on an unknown tag.
\* create_model with extra="forbid"; a field whose default is not Ellipsis is
\* not required, and None is such a default.
payload_model(data) ==
  IF \E k \in DOMAIN data : data[k][1] \notin DOMAIN l2p
  THEN [ok |-> FALSE, fields |-> EmptyDict]
  ELSE [ok |-> TRUE,
        fields |-> [k \in DOMAIN data |-> <<l2p[data[k][1]], data[k][2]>>]]

\* pydantic's lax-mode conversion of one value to a field type
Coercible(type, v) ==
  CASE type = "str" -> v \in {"s:x", "s:1"}
    [] type = "float" -> v \in {"n:1", "f:1.0", "s:1", "b:T"}
    [] type = "int" -> v \in {"n:1", "f:1.0", "s:1", "b:T"}
    [] type = "bool" -> v \in {"b:T", "n:1", "f:1.0", "s:1"}
    [] OTHER -> FALSE

Coerce(type, v) ==
  CASE type = "str" -> v
    [] type = "float" -> "f:1.0"
    [] type = "int" -> "n:1"
    [] type = "bool" -> "b:T"
    [] OTHER -> v

\* mutant: undeclared keys are ignored (extra="ignore")
Validate_ignore_extra(model, data) ==
  IF ~ model.ok
  THEN [ok |-> FALSE, rec |-> EmptyDict]
  ELSE IF \E k \in (DOMAIN data) \cap (DOMAIN model.fields) :
            ~ Coercible(model.fields[k][1], data[k])
  THEN [ok |-> FALSE, rec |-> EmptyDict]
  ELSE [ok |-> TRUE,
        rec |-> [k \in DOMAIN model.fields |->
                   IF k \in DOMAIN data
                   THEN Coerce(model.fields[k][1], data[k])
                   ELSE model.fields[k][2]]]

\* Model(**data): extra keys are forbidden, a present key is coerced, an
\* absent key takes the declared default.
Validate(model, data) ==
  IF ~ model.ok
  THEN [ok |-> FALSE, rec |-> EmptyDict]
  ELSE IF \E k \in DOMAIN data : k \notin DOMAIN model.fields
  THEN [ok |-> FALSE, rec |-> EmptyDict]
  ELSE IF \E k \in DOMAIN data : ~ Coercible(model.fields[k][1], data[k])
  THEN [ok |-> FALSE, rec |-> EmptyDict]
  ELSE [ok |-> TRUE,
        rec |-> [k \in DOMAIN model.fields |->
                   IF k \in DOMAIN data
                   THEN Coerce(model.fields[k][1], data[k])
                   ELSE model.fields[k][2]]]

\* ------------------------------------------------------------ form parsing
\* payload_from_form: zip(names, dtypes) folded into a dict, a later pair
\* replacing an earlier one of the same name.
RECURSIVE ZipDict(_, _)
ZipDict(names, dtypes) ==
  IF names = <<>> \/ dtypes = <<>>
  THEN EmptyDict
  ELSE LET n == IF Len(names) < Len(dtypes) THEN Len(names) ELSE Len(dtypes)
           head == ZipDict(SubSeq(names, 1, n - 1), SubSeq(dtypes, 1, n - 1))
       IN  [k \in (DOMAIN head) \cup {names[n]} |->
              IF k = names[n] THEN <<dtypes[n], None>> ELSE head[k]]

payload_from_form(form, prefix) ==
  IF prefix = "req"
  THEN ZipDict(form.req_name, form.req_dtype)
  ELSE ZipDict(form.res_name, form.res_dtype)

\* Projects.from_form, one side: the rows with a non-empty name, a later row
\* replacing an earlier one of the same name; IndexError when such a row has
\* no dtype
from_form(form, prefix) ==
  LET names == IF prefix = "req" THEN form.req_name ELSE form.res_name
      dtypes == IF prefix = "req" THEN form.req_dtype ELSE form.res_dtype
      rows == {i \in 1..Len(names) : names[i] # ""}
      last(k) == CHOOSE i \in rows :
                   names[i] = k /\ \A j \in rows : names[j] = k => j <= i
  IN  IF \E i \in rows : i > Len(dtypes)
      THEN [ok |-> FALSE, contract |-> EmptyDict]
      ELSE [ok |-> TRUE,
            contract |-> [k \in {names[i] : i \in rows} |->
                            <<dtypes[last(k)], None>>]]

\* ------------------------------------------------------- Invocation Metering
\* len(x.model_dump_json()): compact JSON of a record
KeyLen(k) == Len(k) + 2
ValLen(v) ==
  CASE v = "n:1" -> 1
    [] v \in {"s:x", "s:1", "f:1.0"} -> 3
    [] OTHER -> 4

RECURSIVE MembersLen(_, _)
MembersLen(rec, keys) ==
  IF keys = {}
  THEN 0
  ELSE LET k == CHOOSE x \in keys : TRUE
       IN  KeyLen(k) + 1 + ValLen(rec[k]) + MembersLen(rec, keys \ {k})

model_dump_json_len(rec) ==
  LET n == Cardinality(DOMAIN rec)
  IN  2 + MembersLen(rec, DOMAIN rec) + (IF n > 1 THEN n - 1 ELSE 0)

\* mutant: the quotient is truncated
floor_div(chars, rate) == chars \div rate

\* math.ceil(chars / rate) for positive integers
ceil_div(chars, rate) ==
  IF chars % rate = 0 THEN chars \div rate ELSE (chars \div rate) + 1

\* ------------------------------------------------------------------ floats
\* a quotient a / b of two counts, kept exact as a fraction in lowest terms
RECURSIVE GCD(_, _)
GCD(a, b) == IF b = 0 THEN a ELSE GCD(b, a % b)

Frac(a, b) == LET g == GCD(a, b) IN <<a \div g, b \div g>>

\* ------------------------------------------------------------------ inputs
Models == {"gpt-35-turbo", "gpt-4", "gpt-3.5-turbo"}
InstrLens == {12, 60}

\* the contract definition forms an operator submits
ProjectForms ==
  { [req_name |-> <<"input">>, req_dtype |-> <<"Text">>,
     res_name |-> <<"output">>, res_dtype |-> <<"Text">>,
     model |-> m, instructions |-> n, collect_payload |-> "absent"] :
       m \in Models, n \in InstrLens }

\* the calls a client makes: Content-Type header, what the body bytes are,
\* and the key/value map they encode
Requests ==
  { [ctype |-> "application/json", wire |-> "json", data |-> ("input" :> "s:x")],
    [ctype |-> "application/json", wire |-> "json",
     data |-> ("input" :> "s:x") @@ ("extra" :> "n:1")],
    [ctype |-> "application/json", wire |-> "json", data |-> EmptyDict],
    [ctype |-> "application/json", wire |-> "json", data |-> ("input" :> "n:1")],
    [ctype |-> "application/json", wire |-> "garbage", data |-> EmptyDict],
    [ctype |-> "multipart/form-data", wire |-> "form", data |-> ("input" :> "s:x")],
    [ctype |-> "application/x-www-form-urlencoded", wire |-> "form",
     data |-> ("input" :> "s:1")],
    [ctype |-> "text/plain", wire |-> "json", data |-> ("input" :> "s:x")],
    [ctype |-> "application/json; charset=utf-8", wire |-> "json",
     data |-> ("input" :> "s:x")] }

\* what the LLM service does with one completion request, and the time it
\* takes (latency, in milliseconds)
Replies ==
  { [kind |-> "ok", latency |-> 1, data |-> ("output" :> "s:x")],
    [kind |-> "ok", latency |-> 1, data |-> EmptyDict],
    [kind |-> "ok", latency |-> 1, data |-> ("output" :> "n:1")],
    [kind |-> "transport", latency |-> 1, data |-> EmptyDict],
    [kind |-> "upstream", latency |-> 1, data |-> EmptyDict],
    [kind |-> "malformed", latency |-> 1, data |-> EmptyDict],
    [kind |-> "cancelled", latency |-> 1, data |-> EmptyDict] }

\* ------------------------------------------------------------------- state
VARIABLES
  users,      \* Users container: id -> document
  projects,   \* Projects container: set of documents
  endpoints,  \* Endpoints container: set of documents
  invs,       \* Invocations container, in the order the documents were saved
  nextPid,    \* the next generated project key
  calls,      \* the invoke calls: position in the handler and its locals
  hist,       \* history: the moment the persisted credits reached the balance
  pf,         \* input and result of a pure function under check
  upd,        \* history: the contracts of the last completed update_project
  session_store,  \* app.state.session_store: session id -> user id
  nextSid,    \* the next generated session id
  authlog     \* history: the login callbacks and logouts, in order

session == <<session_store, nextSid, authlog>>

vars == <<users, projects, endpoints, invs, nextPid, calls, hist, pf, upd, session>>

NoUser ==
  [id |-> "none", credits_avail |-> 0, credits_used |-> 0, invocations |-> 0,
   latency |-> <<0, 1>>, success |-> <<1, 1>>]
NoProject ==
  [id |-> 0, user |-> "none", instructions |-> 0, request |-> EmptyDict,
   response |-> EmptyDict, model |-> "", endpoint |-> 0, collect_payload |-> FALSE,
   invocations |-> 0, credits |-> 0, latency |-> <<0, 1>>, success |-> <<1, 1>>]
NoRequest == [ctype |-> "", wire |-> "", data |-> EmptyDict]

\* a call that has not arrived yet
IdleCall ==
  [pc |-> "idle", id |-> 0, req |-> NoRequest, user |-> NoUser, seen |-> 0,
   project |-> NoProject, request |-> EmptyDict, response |-> EmptyDict,
   credits |-> 0, latency |-> 0, resp |-> 0, reason |-> "", llm |-> "none"]

NoHist == [reached |-> FALSE, inflight |-> 0, after |-> 0]
NoPf == [fn |-> "none"]
NoUpd == [set |-> FALSE, id |-> 0, request |-> EmptyDict, response |-> EmptyDict]

\* Users: credits_avail is the pre-paid balance, credits_used starts at 0
NewUser(u, avail) ==
  [id |-> u, credits_avail |-> avail, credits_used |-> 0, invocations |-> 0,
   latency |-> <<0, 1>>, success |-> <<1, 1>>]

\* the store of a fresh deployment: the account and no documents
InitStore ==
  /\ \E avail \in 0..MaxAvail : users = [u \in UserIds |-> NewUser(u, avail)]
  /\ projects = {}
  /\ endpoints = {}
  /\ invs = <<>>
  /\ nextPid = 1
  /\ hist = NoHist
  /\ upd = NoUpd
  /\ session_store = [sid \in {} |-> "none"]
  /\ nextSid = 1
  /\ authlog = <<>>

Init ==
  /\ InitStore
  /\ calls = [c \in Calls |-> IdleCall]
  /\ pf = NoPf

\* ---------------------------------------------------------- project actions
\* get_project: the Project built from the submitted form
get_project(form, user_id, key) ==
  [id |-> key, user |-> user_id, instructions |-> form.instructions,
   request |-> payload_from_form(form, "req"),
   response |-> payload_from_form(form, "res"),
   model |-> form.model, endpoint |-> key,
   collect_payload |-> (form.collect_payload = "on"),
   invocations |-> 0, credits |-> 0, latency |-> <<0, 1>>, success |-> <<1, 1>>]

\* Endpoints.from_project
from_project(project, user_id) ==
  [id |-> project.endpoint, project |-> project.id, user |-> user_id]

\* POST /app/projects: project.save(), endpoint.save()
create_project(u, form) ==
  /\ nextPid <= MaxProjects
  /\ LET project == get_project(form, u, nextPid)
     IN  /\ projects' = projects \cup {project}
         /\ endpoints' = endpoints \cup {from_project(project, u)}
  /\ nextPid' = nextPid + 1
  /\ UNCHANGED <<users, invs, calls, hist, pf, upd, session>>

\* DELETE /app/projects/{id}: Projects.get(id, user_id), project.delete()
delete_project(u, id) ==
  /\ \E p \in projects :
       /\ p.id = id /\ p.user = u
       /\ projects' = projects \ {p}
  /\ UNCHANGED <<users, endpoints, invs, nextPid, calls, hist, pf, upd, session>>

\* ------------------------------------------------------------------ invoke
\* mutant: the lookup ignores the id
Endpoints_get_any(eps, id) == eps

\* Document.get(id, pk): read_item raises when no document has the id
Endpoints_get(eps, id) == {e \in eps : e.id = id}
Projects_get(ps, id, pk) == {p \in ps : p.id = id /\ p.user = pk}

\* mutant: the check lets an exactly exhausted balance through
\* mutant: the check keeps a reserve of one credit
out_of_credits_reserve(user) == user.credits_used + 1 >= user.credits_avail

out_of_credits_strict(user) == user.credits_used > user.credits_avail

\* if user.credits_used >= user.credits_avail
out_of_credits(user) == user.credits_used >= user.credits_avail

\* mutant: the media type is compared without its parameters
content_type_lenient(ctype) ==
  CASE ctype \in {"application/json", "application/json; charset=utf-8"} -> "json"
    [] ctype \in {"multipart/form-data", "application/x-www-form-urlencoded"} -> "form"
    [] OTHER -> "invalid"

\* the branch the Content-Type header selects
content_type(ctype) ==
  CASE ctype = "application/json" -> "json"
    [] ctype \in {"multipart/form-data", "application/x-www-form-urlencoded"} -> "form"
    [] OTHER -> "invalid"

\* await req.json() / dict(await req.form()): raises on a body it cannot parse
decode(kind, req) == [ok |-> req.wire = kind, data |-> req.data]

\* the handler returns a response (or an exception leaves it: 500)
Finish(call, status, reason) ==
  [call EXCEPT !.pc = "done", !.resp = status, !.reason = reason]

\* mutant: the decoded data is used without validation
parse_request_unchecked(project, data) == [ok |-> TRUE, rec |-> data]

\* project.request_model(**data) inside try/except
parse_request(project, data) == Validate(payload_model(project.request), data)

\* invoke up to the LLM call: endpoint lookup, credit check, project lookup,
\* content type, decoding, validation
Admit(call, eps, us, ps) ==
  IF Endpoints_get(eps, call.id) = {}
  THEN Finish(call, 404, "Endpoint doesn't exist")
  ELSE
    LET endpoint == CHOOSE e \in Endpoints_get(eps, call.id) : TRUE
        user == us[endpoint.user]
        c1 == [call EXCEPT !.user = user, !.seen = user.credits_used]
        found == Projects_get(ps, endpoint.project, endpoint.user)
    IN
    IF out_of_credits(user)
    THEN Finish(c1, 402, "Out of Credits")
    ELSE IF found = {}
    THEN Finish(c1, 500, "Internal Server Error")
    ELSE
      LET project == CHOOSE p \in found : TRUE
          c2 == [c1 EXCEPT !.project = project]
          kind == content_type(call.req.ctype)
          body == decode(kind, call.req)
          v == parse_request(project, body.data)
      IN
      IF kind = "invalid"
      THEN Finish(c2, 422, "Invalid Content-Type")
      ELSE IF ~ body.ok
      THEN Finish(c2, 500, "Internal Server Error")
      ELSE IF ~ v.ok
      THEN Finish(c2, 422, "Payload is invalid")
      ELSE [c2 EXCEPT !.pc = "llm", !.request = v.rec]

invoke_admit(c, id, req) ==
  /\ calls[c].pc = "idle"
  /\ calls' = [calls EXCEPT ![c] =
                 Admit([calls[c] EXCEPT !.id = id, !.req = req],
                       endpoints, users, projects)]
  /\ UNCHANGED <<users, projects, endpoints, invs, nextPid, hist, pf, upd, session>>

\* mutant: a transport failure is swallowed and an empty record returned
ai_function_swallow(Res, reply) ==
  IF reply.kind = "transport"
  THEN [ok |-> TRUE, rec |-> [k \in DOMAIN Res.fields |-> None]]
  ELSE IF reply.kind # "ok"
  THEN [ok |-> FALSE, rec |-> EmptyDict]
  ELSE Validate(Res, reply.data)

\* ai_function: the typed reply of the LLM, or an exception
ai_function(Res, reply) ==
  IF reply.kind # "ok"
  THEN [ok |-> FALSE, rec |-> EmptyDict]
  ELSE Validate(Res, reply.data)

\* chars and credits of a completed call
chars_of(project, request, response) ==
  model_dump_json_len(response) + model_dump_json_len(request) + project.instructions

credits_of(project, chars) == ceil_div(chars, model2credits[project.model])

\* the awaited LLM call and the metering after it
Meter(call, reply) ==
  LET project == call.project
      Res == payload_model(project.response)
      out == ai_function(Res, reply)
      c1 == [call EXCEPT !.llm = IF reply.kind = "ok" /\ ~ out.ok
                                 THEN "violation" ELSE reply.kind]
      c2 == [c1 EXCEPT !.response = out.rec]
  IN
  IF ~ Res.ok
  THEN Finish(call, 500, "Internal Server Error")
  ELSE IF ~ out.ok
  THEN IF reply.kind = "cancelled"
       THEN Finish(c1, 0, "cancelled")
       ELSE Finish(c1, 500, "Internal Server Error")
  ELSE IF project.model \notin DOMAIN model2credits
  THEN Finish(c2, 500, "Internal Server Error")
  ELSE [c2 EXCEPT !.pc = "save", !.latency = reply.latency,
                  !.credits = credits_of(project, chars_of(project, call.request, out.rec))]

invoke_llm(c, reply) ==
  /\ calls[c].pc = "llm"
  /\ calls' = [calls EXCEPT ![c] = Meter(calls[c], reply)]
  /\ UNCHANGED <<users, projects, endpoints, invs, nextPid, hist, pf, upd, session>>

\* a field of type dict | None
NoneDict == [none |-> TRUE, data |-> EmptyDict]
SomeDict(d) == [none |-> FALSE, data |-> d]

\* mutant: the payloads are stored whatever the flag says
Invocation_with_payload(c, call) ==
  [call |-> c, project |-> call.project.id, user |-> call.project.user,
   credits |-> call.credits, latency |-> call.latency, success |-> TRUE,
   model |-> call.project.model,
   request |-> SomeDict(call.request),
   response |-> SomeDict(call.response)]

\* inv = Invocations(...): the document the call persists
Invocation(c, call) ==
  [call |-> c, project |-> call.project.id, user |-> call.project.user,
   credits |-> call.credits, latency |-> call.latency, success |-> TRUE,
   model |-> call.project.model,
   request |-> IF call.project.collect_payload
               THEN SomeDict(call.request) ELSE NoneDict,
   response |-> IF call.project.collect_payload
                THEN SomeDict(call.response) ELSE NoneDict]

\* the calls that passed the credit check and have not returned
InFlight(cs) == {c \in DOMAIN cs : cs[c].pc \in {"llm", "save", "debit"}}

RECURSIVE SumCredits(_)
SumCredits(seq) ==
  IF seq = <<>> THEN 0 ELSE seq[1].credits + SumCredits(Tail(seq))

\* history of the overshoot: set when the sum of the persisted credits first
\* reaches credits_avail, counting the charged Invocations saved after it
Observe(h, inv, before, avail, cs) ==
  IF h.reached
  THEN [h EXCEPT !.after = @ + (IF inv.credits > 0 THEN 1 ELSE 0)]
  ELSE IF SumCredits(Append(before, inv)) >= avail
  THEN [reached |-> TRUE, inflight |-> Cardinality(InFlight(cs)), after |-> 0]
  ELSE h

\* mutant: the document is saved under the id of its project and replaces
\* the Invocation that project had
invoke_save_upsert(c) ==
  /\ calls[c].pc = "save"
  /\ invs' = Append(SelectSeq(invs, LAMBDA x : x.project # calls[c].project.id),
                    Invocation(c, calls[c]))
  /\ calls' = [calls EXCEPT ![c].pc = "debit"]
  /\ hist' = Observe(hist, Invocation(c, calls[c]), invs,
                     users[calls[c].project.user].credits_avail, calls)
  /\ UNCHANGED <<users, projects, endpoints, nextPid, pf, upd, session>>

\* inv.save()
invoke_save(c) ==
  /\ calls[c].pc = "save"
  /\ invs' = Append(invs, Invocation(c, calls[c]))
  /\ calls' = [calls EXCEPT ![c].pc = "debit"]
  /\ hist' = Observe(hist, Invocation(c, calls[c]), invs,
                     users[calls[c].project.user].credits_avail, calls)
  /\ UNCHANGED <<users, projects, endpoints, nextPid, pf, upd, session>>

\* mutant: the failure of the save is swallowed and the call goes on
invoke_save_error_swallowed(c) ==
  /\ calls[c].pc = "save"
  /\ calls' = [calls EXCEPT ![c].pc = "debit"]
  /\ UNCHANGED <<users, projects, endpoints, invs, nextPid, hist, pf, upd, session>>

\* inv.save() raises: the exception leaves invoke, nothing is written
invoke_save_error(c) ==
  /\ calls[c].pc = "save"
  /\ calls' = [calls EXCEPT ![c] = Finish(@, 500, "Internal Server Error")]
  /\ UNCHANGED <<users, projects, endpoints, invs, nextPid, hist, pf, upd, session>>

\* user.credits_used += credits
debit(user, credits) == [user EXCEPT !.credits_used = @ + credits]

\* user.save() and the 200 response
invoke_debit(c) ==
  /\ calls[c].pc = "debit"
  /\ LET user == debit(calls[c].user, calls[c].credits)
     IN  /\ users' = [users EXCEPT ![user.id] = user]
         /\ calls' = [calls EXCEPT ![c] = Finish([@ EXCEPT !.user = user], 200, "OK")]
  /\ UNCHANGED <<projects, endpoints, invs, nextPid, hist, pf, upd, session>>

\* ------------------------------------------------ dashboard and aggregates
RECURSIVE SumLatency(_)
SumLatency(seq) ==
  IF seq = <<>> THEN 0 ELSE seq[1].latency + SumLatency(Tail(seq))

\* len([x for x in invocations if x.success])
CountSuccess(seq) == Len(SelectSeq(seq, LAMBDA x : x.success))

\* mutant: the aggregates are recomputed and saved on every call
\* mutant: refresh stores the new count and keeps the old credits_used
Users_refresh_count_only(user, invocations) ==
  IF Len(invocations) = user.invocations
  THEN [entity |-> user, saved |-> FALSE]
  ELSE [entity |-> [user EXCEPT !.invocations = Len(invocations)], saved |-> TRUE]

Users_refresh_always(user, invocations) ==
  LET n == Len(invocations)
      u1 == [user EXCEPT !.credits_used = SumCredits(invocations),
                         !.invocations = n]
      u2 == IF n > 0
            THEN [u1 EXCEPT !.latency = Frac(SumLatency(invocations), n),
                            !.success = Frac(CountSuccess(invocations), n)]
            ELSE u1
  IN  [entity |-> u2, saved |-> TRUE]

\* Users.refresh: the refreshed document and whether save() was called
Users_refresh(user, invocations) ==
  IF Len(invocations) = user.invocations
  THEN [entity |-> user, saved |-> FALSE]
  ELSE LET n == Len(invocations)
           u1 == [user EXCEPT !.credits_used = SumCredits(invocations),
                              !.invocations = n]
           u2 == IF n > 0
                 THEN [u1 EXCEPT !.latency = Frac(SumLatency(invocations), n),
                                 !.success = Frac(CountSuccess(invocations), n)]
                 ELSE u1
       IN  [entity |-> u2, saved |-> TRUE]

\* Projects.refresh: only the Invocations of this project count
Projects_refresh(project, invocations) ==
  LET own == SelectSeq(invocations, LAMBDA x : x.project = project.id)
  IN
  IF Len(own) = project.invocations
  THEN [entity |-> project, saved |-> FALSE]
  ELSE LET n == Len(own)
           p1 == [project EXCEPT !.invocations = n, !.credits = SumCredits(own)]
           p2 == IF n > 0
                 THEN [p1 EXCEPT !.latency = Frac(SumLatency(own), n),
                                 !.success = Frac(CountSuccess(own), n)]
                 ELSE p1
       IN  [entity |-> p2, saved |-> TRUE]

\* Invocations.find("user = ..."), Invocations.find("project = ...", pk)
find_by_user(seq, u) == SelectSeq(seq, LAMBDA x : x.user = u)
find_by_project(seq, id, pk) ==
  SelectSeq(seq, LAMBDA x : x.project = id /\ x.user = pk)

\* save(): upsert_item replaces the document of the same id
upsert(docs, doc) == {d \in docs : d.id # doc.id} \cup {doc}

\* Depends(get_user): the Users document of the signed-in operator
get_user(us, u) == us[u]

\* GET /app: user.refresh(invocations), p.refresh(invocations) for each project
dashboard(u) ==
  LET user == get_user(users, u)
      mine == {p \in projects : p.user = u}
      invocations == find_by_user(invs, u)
  IN  /\ users' = [users EXCEPT ![u] = Users_refresh(user, invocations).entity]
      /\ projects' = (projects \ mine) \cup
                        {Projects_refresh(p, invocations).entity : p \in mine}
      /\ UNCHANGED <<endpoints, invs, nextPid, calls, hist, pf, upd, session>>

\* GET /app/projects/{id}: Projects.get, project.refresh(invocations)
read_project(u, id) ==
  /\ Projects_get(projects, id, u) # {}
  /\ LET project == CHOOSE p \in Projects_get(projects, id, u) : TRUE
         r == Projects_refresh(project, find_by_project(invs, id, u))
     IN  projects' = upsert(projects, r.entity)
  /\ UNCHANGED <<users, endpoints, invs, nextPid, calls, hist, pf, upd, session>>

\* PATCH /app/projects/{id}: the project built from the form takes the id and
\* the endpoint of the stored one and is written by refresh, if refresh saves
update_project(u, id, form) ==
  /\ Projects_get(projects, id, u) # {}
  /\ LET project_old == CHOOSE p \in Projects_get(projects, id, u) : TRUE
         project_new == [get_project(form, u, 0) EXCEPT
                           !.id = project_old.id,
                           !.endpoint = project_old.endpoint]
         r == Projects_refresh(project_new, find_by_project(invs, id, u))
     IN  /\ projects' = IF r.saved THEN upsert(projects, r.entity) ELSE projects
         /\ upd' = [set |-> TRUE, id |-> id, request |-> project_new.request,
                    response |-> project_new.response]
  /\ UNCHANGED <<users, endpoints, invs, nextPid, calls, hist, pf, session>>

\* ------------------------------------------------------ the tool-call client
\* class Message
Message(role, content) == [role |-> role, content |-> content]

\* class ToolFunctionParameters
ToolFunctionParameters(type, properties, required) ==
  [type |-> type, properties |-> properties, required |-> required]

\* class ToolFunction: name and description have defaults
ToolFunction(parameters) ==
  [name |-> "structured_response",
   description |-> "Saves the response in a structured format.",
   parameters |-> parameters]

\* class Tool
Tool(function) == [type |-> "function", function |-> function]

\* class OpenAIRequest: tool_choice is not passed by llm_openai and keeps its
\* default; a tool_choice is the mode and, for a named function, its name
OpenAIRequest(model, messages, temperature, tools) ==
  [model |-> model, messages |-> messages, temperature |-> temperature,
   tools |-> tools, tool_choice |-> [mode |-> "auto", function |-> ""]]

\* openai_response_tool: the schema of the response model, every field required
openai_response_tool(PayloadResponse) ==
  Tool(ToolFunction(ToolFunctionParameters("object", PayloadResponse.fields,
                                           DOMAIN PayloadResponse.fields)))

\* the request llm_openai posts
openai_request(model, instructions, request, Response) ==
  OpenAIRequest(model,
                <<Message("user", [instructions |-> instructions, data |-> request])>>,
                0,
                <<openai_response_tool(Response)>>)

\* the replies of the completion service: a status code and a body that is
\* not JSON, an error object, a plain message, or a message with a tool call
\* whose arguments are or are not JSON
StatusCodes == {200, 400, 401, 429, 500}
ReplyBodies ==
  { [kind |-> k, json |-> FALSE, data |-> EmptyDict] :
      k \in {"text", "error", "message", "tool"} }
  \cup { [kind |-> "tool", json |-> TRUE, data |-> d] :
           d \in {EmptyDict, "output" :> "s:x", "answer" :> "s:x"} }
HttpReplies == { [status |-> st, body |-> b] : st \in StatusCodes, b \in ReplyBodies }

\* res.json()["choices"][0]["message"]["tool_calls"][0]["function"]["arguments"],
\* json.loads and Response(**data): the status code of the reply is not read
parse_reply(Response, res) ==
  IF res.body.kind # "tool" \/ ~ res.body.json
  THEN [ok |-> FALSE, rec |-> EmptyDict]
  ELSE Validate(Response, res.body.data)

\* llm_openai: the request sent and the record returned, or an exception
llm_openai(model, instructions, request, Response, res) ==
  [sent |-> openai_request(model, instructions, request, Response),
   out |-> parse_reply(Response, res)]

ResponseContracts ==
  { "output" :> <<"Text", None>>, "answer" :> <<"Text", None>> }

LlmInputs ==
  { [fn |-> "llm", model |-> mdl, instructions |-> 12,
     request |-> ("input" :> "s:x"), contract |-> ct, reply |-> res,
     applied |-> FALSE,
     sent |-> OpenAIRequest("", <<>>, 1, <<>>),
     out |-> [ok |-> FALSE, rec |-> EmptyDict]] :
       mdl \in Models, ct \in ResponseContracts, res \in HttpReplies }

InitLlm ==
  /\ InitStore
  /\ calls = [c \in Calls |-> IdleCall]
  /\ pf \in LlmInputs

apply_llm ==
  /\ pf.fn = "llm"
  /\ ~ pf.applied
  /\ LET r == llm_openai(pf.model, pf.instructions, pf.request,
                         payload_model(pf.contract), pf.reply)
     IN  pf' = [pf EXCEPT !.applied = TRUE, !.sent = r.sent, !.out = r.out]
  /\ UNCHANGED <<users, projects, endpoints, invs, nextPid, calls, hist, upd, session>>

NextLlm == apply_llm

SpecLlm == InitLlm /\ [][NextLlm]_vars

\* ---------------------------------------------------------------- sessions
\* the accounts of the identity provider
SessionUsers == {"u1", "u2"}

\* the session_id cookie of a request: 0 when the cookie is missing, else an
\* id, issued or not
Cookies == 0..(MaxSessions + 1)

\* authenticate: the user id of the session, or HTTPException(401)
authenticate(store, cookie) ==
  IF cookie = 0 \/ cookie \notin DOMAIN store
  THEN [status |-> 401, user |-> "none"]
  ELSE [status |-> 200, user |-> store[cookie]]

\* GET /github/callback: a fresh session id is bound to the user
github_callback(u) ==
  /\ nextSid <= MaxSessions
  /\ Len(authlog) < MaxEvents
  /\ session_store' = [sid \in (DOMAIN session_store) \cup {nextSid} |->
                         IF sid = nextSid THEN u ELSE session_store[sid]]
  /\ nextSid' = nextSid + 1
  /\ authlog' = Append(authlog, [op |-> "login", sid |-> nextSid, user |-> u])
  /\ UNCHANGED <<users, projects, endpoints, invs, nextPid, calls, hist, pf, upd>>

\* mutant: the logout empties the session store
logout_all(cookie) ==
  /\ Len(authlog) < MaxEvents
  /\ session_store' = [sid \in {} |-> "none"]
  /\ authlog' = Append(authlog, [op |-> "logout", sid |-> cookie, user |-> "none"])
  /\ UNCHANGED <<users, projects, endpoints, invs, nextPid, calls, hist, pf, upd,
                 nextSid>>

\* GET /logout: the session of the cookie, if there is one, is removed
logout(cookie) ==
  /\ Len(authlog) < MaxEvents
  /\ session_store' =
       IF cookie # 0 /\ cookie \in DOMAIN session_store
       THEN [sid \in (DOMAIN session_store) \ {cookie} |-> session_store[sid]]
       ELSE session_store
  /\ authlog' = Append(authlog, [op |-> "logout", sid |-> cookie, user |-> "none"])
  /\ UNCHANGED <<users, projects, endpoints, invs, nextPid, calls, hist, pf, upd,
                 nextSid>>

NextAuth ==
  \/ \E u \in SessionUsers : github_callback(u)
  \/ \E cookie \in Cookies : logout(cookie)

SpecAuth == Init /\ [][NextAuth]_vars

\* ----------------------------------------------------------- specification
EndpointIds == 0..MaxProjects

Next ==
  \/ \E u \in UserIds, form \in ProjectForms : create_project(u, form)
  \/ \E u \in UserIds, id \in 1..MaxProjects : delete_project(u, id)
  \/ \E c \in DOMAIN calls, id \in EndpointIds, req \in Requests :
       invoke_admit(c, id, req)
  \/ \E c \in DOMAIN calls, reply \in Replies : invoke_llm(c, reply)
  \/ \E c \in DOMAIN calls : invoke_save(c)
  \/ \E c \in DOMAIN calls : invoke_debit(c)

Spec == Init /\ [][Next]_vars

TypeOK ==
  /\ \A u \in UserIds : users[u].credits_used >= 0
  /\ \A c \in DOMAIN calls : calls[c].pc \in {"idle", "llm", "save", "debit", "done"}

\* ------------------------------------- overlapping calls on one account
\* Well-formed calls on one project, each answered by a conforming reply;
\* the calls are interchangeable, so they arrive in the order of their index.
RaceForm ==
  [req_name |-> <<"input">>, req_dtype |-> <<"Text">>,
   res_name |-> <<"output">>, res_dtype |-> <<"Text">>,
   model |-> "gpt-35-turbo", instructions |-> 12, collect_payload |-> "absent"]
RaceRequest ==
  [ctype |-> "application/json", wire |-> "json", data |-> ("input" :> "s:x")]
RaceReply == [kind |-> "ok", latency |-> 1, data |-> ("output" :> "s:x")]

InitRace ==
  /\ \E avail \in 1..RaceAvail : users = [u \in UserIds |-> NewUser(u, avail)]
  /\ projects = {}
  /\ endpoints = {}
  /\ invs = <<>>
  /\ nextPid = 1
  /\ hist = NoHist
  /\ upd = NoUpd
  /\ session_store = [sid \in {} |-> "none"]
  /\ nextSid = 1
  /\ authlog = <<>>
  /\ calls = [c \in 1..NumRacers |-> IdleCall]
  /\ pf = NoPf

NextRace ==
  \/ \E u \in UserIds : create_project(u, RaceForm)
  \/ \E c \in DOMAIN calls :
       /\ IF c = 1 THEN TRUE ELSE calls[c - 1].pc # "idle"
       /\ invoke_admit(c, 1, RaceRequest)
  \/ \E c \in DOMAIN calls : invoke_llm(c, RaceReply)
  \/ \E c \in DOMAIN calls : invoke_save(c)
  \/ \E c \in DOMAIN calls : invoke_debit(c)

SpecRace == InitRace /\ [][NextRace]_vars

\* calls on one account that do not overlap, on projects of different cost
SeqForms ==
  { [req_name |-> <<"input">>, req_dtype |-> <<"Text">>,
     res_name |-> <<"output">>, res_dtype |-> <<"Text">>,
     model |-> "gpt-4", instructions |-> 23, collect_payload |-> "absent"],
    [req_name |-> <<"input">>, req_dtype |-> <<"Text">>,
     res_name |-> <<"output">>, res_dtype |-> <<"Text">>,
     model |-> "gpt-4", instructions |-> 24, collect_payload |-> "absent"] }

SeqReplies ==
  { RaceReply, [kind |-> "transport", latency |-> 1, data |-> EmptyDict] }

NextSeq ==
  \/ \E u \in UserIds, form \in SeqForms : create_project(u, form)
  \/ \E c \in DOMAIN calls :
       /\ IF c = 1 THEN TRUE ELSE calls[c - 1].pc # "idle"
       /\ InFlight(calls) = {}
       /\ invoke_admit(c, 1, RaceRequest)
  \/ \E c \in DOMAIN calls, reply \in SeqReplies : invoke_llm(c, reply)
  \/ \E c \in DOMAIN calls : invoke_save(c)
  \/ \E c \in DOMAIN calls : invoke_debit(c)

SpecSeq == InitRace /\ [][NextSeq]_vars

\* ------------------------------- the operator's pages next to invoke calls
\* Contract definition forms: a text-to-text project per model and length of
\* instructions, a form that declares other fields on both sides, and a form
\* with a type tag the registry does not know.
AdminForms ==
  { [req_name |-> <<"input">>, req_dtype |-> <<"Text">>,
     res_name |-> <<"output">>, res_dtype |-> <<"Text">>,
     model |-> "gpt-4", instructions |-> 23, collect_payload |-> "absent"],
    [req_name |-> <<"input">>, req_dtype |-> <<"Text">>,
     res_name |-> <<"output">>, res_dtype |-> <<"Text">>,
     model |-> "gpt-4", instructions |-> 24, collect_payload |-> "on"],
    [req_name |-> <<"input">>, req_dtype |-> <<"Text">>,
     res_name |-> <<"output">>, res_dtype |-> <<"Text">>,
     model |-> "gpt-35-turbo", instructions |-> 474, collect_payload |-> "absent"],
    [req_name |-> <<"n">>, req_dtype |-> <<"Number">>,
     res_name |-> <<"answer">>, res_dtype |-> <<"Text">>,
     model |-> "gpt-4", instructions |-> 23, collect_payload |-> "absent"],
    [req_name |-> <<"input">>, req_dtype |-> <<"string">>,
     res_name |-> <<"output">>, res_dtype |-> <<"Text">>,
     model |-> "gpt-4", instructions |-> 23, collect_payload |-> "absent"] }

AdminRequests ==
  { [ctype |-> "application/json", wire |-> "json", data |-> ("input" :> "s:x")],
    [ctype |-> "application/json", wire |-> "json", data |-> ("n" :> "n:1")] }

AdminReplies ==
  { [kind |-> "ok", latency |-> 1, data |-> ("output" :> "s:x")],
    [kind |-> "ok", latency |-> 2, data |-> ("output" :> "s:x")],
    [kind |-> "ok", latency |-> 1, data |-> ("answer" :> "s:x")],
    [kind |-> "transport", latency |-> 1, data |-> EmptyDict] }

NextAdmin ==
  \/ \E u \in UserIds, form \in AdminForms : create_project(u, form)
  \/ \E u \in UserIds, id \in 1..MaxProjects, form \in AdminForms :
       update_project(u, id, form)
  \/ \E u \in UserIds, id \in 1..MaxProjects : delete_project(u, id)
  \/ \E u \in UserIds : dashboard(u)
  \/ \E u \in UserIds, id \in 1..MaxProjects : read_project(u, id)
  \/ \E c \in DOMAIN calls, id \in EndpointIds, req \in AdminRequests :
       invoke_admit(c, id, req)
  \/ \E c \in DOMAIN calls, reply \in AdminReplies : invoke_llm(c, reply)
  \/ \E c \in DOMAIN calls : invoke_save(c)
  \/ \E c \in DOMAIN calls : invoke_save_error(c)
  \/ \E c \in DOMAIN calls : invoke_debit(c)

SpecAdmin == Init /\ [][NextAdmin]_vars

\* ------------------------------------------- the schema compiler on its own
FieldNames == {"input", "n"}
TypeTags == {"Text", "Number", "int", "string"}
Defaults == {None, "s:x"}
PayloadKeys == {"input", "n", "extra"}
PayloadValues == {"s:x", "s:1", "n:1"}

SeqsUpTo(S, n) == UNION {[1..k -> S] : k \in 0..n}
Dicts(K, V) == UNION {[T -> V] : T \in SUBSET K}

\* a stored contract: the form's dict, the default as the document holds it
WithDefault(contract, d) == [k \in DOMAIN contract |-> <<contract[k][1], d>>]

\* a contract definition form, the contract built from it, and a payload
ValidateInputs ==
  { [fn |-> "validate", names |-> names, dtypes |-> dtypes, dflt |-> d,
     contract |-> WithDefault(ZipDict(names, dtypes), d),
     payload |-> payload, applied |-> FALSE,
     out |-> [ok |-> FALSE, rec |-> EmptyDict]] :
       names \in SeqsUpTo(FieldNames, MaxFields),
       dtypes \in SeqsUpTo(TypeTags, MaxFields),
       d \in Defaults,
       payload \in Dicts(PayloadKeys, PayloadValues) }

InitValidate ==
  /\ InitStore
  /\ calls = [c \in Calls |-> IdleCall]
  /\ pf \in {i \in ValidateInputs : Len(i.names) = Len(i.dtypes)}

\* payload_model(name, contract)(**payload)
apply_validate ==
  /\ pf.fn = "validate"
  /\ ~ pf.applied
  /\ pf' = [pf EXCEPT !.applied = TRUE,
                      !.out = Validate(payload_model(pf.contract), pf.payload)]
  /\ UNCHANGED <<users, projects, endpoints, invs, nextPid, calls, hist, upd, session>>

NextValidate == apply_validate

SpecValidate == InitValidate /\ [][NextValidate]_vars

\* ----------------------------------------------- the form parsers on their own
FormNames == {"", "input", "n"}

\* one side of a contract definition form as the browser submits it
FormInputs ==
  { [fn |-> "form", names |-> names, dtypes |-> dtypes, applied |-> FALSE,
     zipped |-> EmptyDict, built |-> [ok |-> FALSE, contract |-> EmptyDict],
     compiled |-> FALSE] :
       names \in SeqsUpTo(FormNames, MaxFields),
       dtypes \in SeqsUpTo(TypeTags, MaxFields) }

InitForm ==
  /\ InitStore
  /\ calls = [c \in Calls |-> IdleCall]
  /\ pf \in FormInputs

\* payload_from_form(form, "req"), Projects.from_form(form, user).request and
\* payload_model on the contract get_project stores
apply_form ==
  /\ pf.fn = "form"
  /\ ~ pf.applied
  /\ LET form == [req_name |-> pf.names, req_dtype |-> pf.dtypes,
                  res_name |-> <<>>, res_dtype |-> <<>>]
     IN  pf' = [pf EXCEPT !.applied = TRUE,
                          !.zipped = payload_from_form(form, "req"),
                          !.built = from_form(form, "req"),
                          !.compiled =
                             payload_model(payload_from_form(form, "req")).ok]
  /\ UNCHANGED <<users, projects, endpoints, invs, nextPid, calls, hist, upd, session>>

NextForm == apply_form

SpecForm == InitForm /\ [][NextForm]_vars

\* ------------------------------------------------------ refresh on its own
\* Invocations documents of two projects of one user
RefreshInvs ==
  { [call |-> 0, project |-> p, user |-> "u1", credits |-> m[1], latency |-> m[2],
     success |-> b, model |-> "gpt-4", request |-> NoneDict,
     response |-> NoneDict] :
       p \in {1, 2}, m \in {<<1, 1>>, <<2, 3>>}, b \in BOOLEAN }

\* a stored entity as its last refresh on the list `before` left it, and the
\* list the next refresh is called with
RefreshInputs ==
  { [fn |-> "refresh", kind |-> kind, invocations |-> now, applied |-> FALSE,
     user |-> Users_refresh(NewUser("u1", MaxAvail), before).entity,
     project |-> Projects_refresh(get_project(RaceForm, "u1", 1), before).entity,
     out |-> [user |-> NoUser, project |-> NoProject, saved |-> FALSE]] :
       kind \in {"user", "project"},
       before \in SeqsUpTo(RefreshInvs, MaxInvs),
       now \in SeqsUpTo(RefreshInvs, MaxInvs) }

InitRefresh ==
  /\ InitStore
  /\ calls = [c \in Calls |-> IdleCall]
  /\ pf \in RefreshInputs

\* user.refresh(invocations) or project.refresh(invocations)
apply_refresh ==
  /\ pf.fn = "refresh"
  /\ ~ pf.applied
  /\ LET ru == Users_refresh(pf.user, pf.invocations)
         rp == Projects_refresh(pf.project, pf.invocations)
     IN  pf' = [pf EXCEPT
                  !.applied = TRUE,
                  !.out = IF pf.kind = "user"
                          THEN [user |-> ru.entity, project |-> pf.project,
                                saved |-> ru.saved]
                          ELSE [user |-> pf.user, project |-> rp.entity,
                                saved |-> rp.saved]]
  /\ UNCHANGED <<users, projects, endpoints, invs, nextPid, calls, hist, upd, session>>

NextRefresh == apply_refresh

SpecRefresh == InitRefresh /\ [][NextRefresh]_vars

\* ------------------------------------------------------------------ claims
\* the step in which call c arrives and runs up to the LLM call
AdmitStep(c) == calls[c].pc = "idle" /\ calls'[c].pc # "idle"

\* the Invocations call c has persisted
InvsOf(seq, c) == {i \in DOMAIN seq : seq[i].call = c}

LlmFailures == {"transport", "upstream", "malformed", "violation", "cancelled"}

\* C1: a call on an existing endpoint whose user has credits_used >=
\* credits_avail when the credit check runs gets 402, the LLM is not
\* contacted, no Invocation is persisted and credits_used is unchanged,
\* whatever the content type and payload of the call are.
C1_OutOfCredits ==
  [][\A c \in DOMAIN calls :
       /\ (/\ AdmitStep(c)
           /\ \E e \in endpoints :
                /\ e.id = calls'[c].id
                /\ users[e.user].credits_used >= users[e.user].credits_avail)
          => /\ calls'[c].pc = "done"
             /\ calls'[c].resp = 402
             /\ calls'[c].llm = "none"
             /\ invs' = invs
             /\ users' = users
       /\ calls[c].resp = 402
          => /\ calls'[c] = calls[c]
             /\ InvsOf(invs', c) = {}]_vars

\* a call with an undeclared key is refused with 402 after earlier calls
\* used the balance up
C1_Witness ==
  \E c \in DOMAIN calls :
    /\ calls[c].resp = 402
    /\ calls[c].seen > 0
    /\ "extra" \in DOMAIN calls[c].req.data

\* C2: when the LLM call yields no usable output (transport failure,
\* upstream error, malformed reply, contract violation, cancellation) the
\* call ends without writing the user and without persisting an Invocation.
C2_NoChargeOnFailure ==
  [][\A c \in DOMAIN calls :
       (calls'[c] # calls[c] /\ calls'[c].llm \in LlmFailures)
       => /\ calls'[c].pc = "done"
          /\ calls'[c].resp # 200
          /\ calls'[c].credits = 0
          /\ users' = users
          /\ invs' = invs
          /\ InvsOf(invs', c) = {}]_vars

\* a cancelled call next to a call that was charged
C2_Witness ==
  \E c, d \in DOMAIN calls :
    /\ calls[c].llm = "cancelled"
    /\ calls[c].pc = "done"
    /\ calls[d].resp = 200

\* C3 (as stated): a call that passed every check and got a conforming LLM
\* reply ends with 200 and exactly one successful Invocation with credits >
\* 0, and the stored credits_used grows by exactly those credits.
C3_SuccessCharged ==
  /\ [](\A c \in DOMAIN calls :
          (calls[c].llm = "ok" /\ calls[c].pc = "done")
          => /\ calls[c].resp = 200
             /\ Cardinality(InvsOf(invs, c)) = 1
             /\ \A i \in InvsOf(invs, c) :
                  invs[i].success /\ invs[i].credits > 0)
  /\ [][\A c \in DOMAIN calls :
          (calls[c].pc = "debit" /\ calls'[c].pc = "done")
          => LET u == calls[c].project.user
             IN  users'[u].credits_used = users[u].credits_used + calls[c].credits]_vars

\* C5 (as stated): a call that reached the LLM call and failed there has
\* persisted exactly one Invocation, with success = false and credits = 0.
C5_FailureRecorded ==
  \A c \in DOMAIN calls :
    (calls[c].pc = "done" /\ calls[c].llm \in LlmFailures)
    => /\ Cardinality(InvsOf(invs, c)) = 1
       /\ \A i \in InvsOf(invs, c) : ~ invs[i].success /\ invs[i].credits = 0

Supported(ctype) ==
  ctype \in {"application/json", "multipart/form-data",
             "application/x-www-form-urlencoded"}
Parseable(req) ==
  \/ req.ctype = "application/json" /\ req.wire = "json"
  \/ /\ req.ctype \in {"multipart/form-data", "application/x-www-form-urlencoded"}
     /\ req.wire = "form"

\* data carries an undeclared key or a value its declared type refuses
PayloadInvalid(contract, data) ==
  \E k \in DOMAIN data :
    \/ k \notin DOMAIN contract
    \/ /\ k \in DOMAIN contract
       /\ contract[k][1] \in DOMAIN l2p
       /\ ~ Coercible(l2p[contract[k][1]], data[k])

\* the project the id of a call stands for, in the store as it is
TargetOf(id) ==
  {p \in projects : \E e \in endpoints :
                      e.id = id /\ p.id = e.project /\ p.user = e.user}

\* the call finds its endpoint, a user with credits left and its project
Admitted(id) ==
  /\ TargetOf(id) # {}
  /\ \A e \in endpoints :
       e.id = id => users[e.user].credits_used < users[e.user].credits_avail

\* C4 (as stated): every call whose payload fails validation against the
\* project's request contract gets 422, calls no LLM, persists nothing and
\* leaves credits_used alone.
C4_InvalidPayload422 ==
  [][\A c \in DOMAIN calls :
       (/\ AdmitStep(c)
        /\ \E p \in TargetOf(calls'[c].id) :
             PayloadInvalid(p.request, calls'[c].req.data))
       => /\ calls'[c].pc = "done"
          /\ calls'[c].resp = 422
          /\ calls'[c].llm = "none"
          /\ invs' = invs
          /\ users' = users]_vars

\* C4 (amended): a call whose payload fails validation never reaches the
\* LLM, persists nothing and leaves credits_used alone; its response is 422
\* "Payload is invalid" when it reached validation, that is when it found
\* its endpoint, credits and project, and sent a parseable body of a
\* recognized content type.
C4_InvalidPayloadRejected ==
  [][\A c \in DOMAIN calls :
       (/\ AdmitStep(c)
        /\ \E p \in TargetOf(calls'[c].id) :
             PayloadInvalid(p.request, calls'[c].req.data))
       => /\ calls'[c].pc = "done"
          /\ calls'[c].llm = "none"
          /\ calls'[c].request = EmptyDict
          /\ invs' = invs
          /\ users' = users
          /\ (Admitted(calls'[c].id) /\ Parseable(calls'[c].req))
             => /\ calls'[c].resp = 422
                /\ calls'[c].reason = "Payload is invalid"]_vars

\* a funded call with an undeclared key and one with a mistyped value are
\* both answered 422 for their payload
C4_Witness ==
  \E c, d \in DOMAIN calls :
    /\ calls[c].resp = 422 /\ calls[c].reason = "Payload is invalid"
    /\ "extra" \in DOMAIN calls[c].req.data
    /\ calls[d].resp = 422 /\ calls[d].reason = "Payload is invalid"
    /\ calls[d].req.data = ("input" :> "n:1")

C9_ExtraKeyRejected ==
  (/\ pf.fn = "validate"
   /\ pf.applied
   /\ \A k \in DOMAIN pf.contract : pf.contract[k][1] \in DOMAIN l2p
   /\ \E k \in DOMAIN pf.payload : k \notin DOMAIN pf.contract)
  => ~ pf.out.ok

\* every declared field is present and well typed, and the extra key alone
\* makes validation fail
C9_Witness ==
  /\ pf.fn = "validate"
  /\ pf.applied
  /\ pf.contract = ("input" :> <<"Text", None>>) @@ ("n" :> <<"Number", None>>)
  /\ pf.payload = ("input" :> "s:x") @@ ("n" :> "n:1") @@ ("extra" :> "s:x")
  /\ ~ pf.out.ok

\* C10 (as stated): for a contract built from a contract definition form
\* (type tags, no defaults) and a payload from which a declared field is
\* absent, validation fails; the absent field is never filled with a value.
C10_MissingFieldRejected ==
  (/\ pf.fn = "validate"
   /\ pf.applied
   /\ pf.dflt = None
   /\ \A k \in DOMAIN pf.contract : pf.contract[k][1] \in DOMAIN l2p
   /\ \E k \in DOMAIN pf.contract : k \notin DOMAIN pf.payload)
  => ~ pf.out.ok

\* C6 (as stated): the charged Invocations persisted after the sum of the
\* account's persisted credits first reached credits_avail are at most as
\* many as the calls that had passed the credit check and were still in
\* flight at that moment.
C6_BoundedOvershoot == hist.reached => hist.after <= hist.inflight

\* the type tags a contract names
TagsOf(contract) == {contract[k][1] : k \in DOMAIN contract}

\* C11 (as stated): the request and response contracts of every stored
\* Project name only type tags of the Field Type Registry; a create_project
\* whose form carries another tag stores no Project and no Endpoint.
C11_StoredTagsRegistered ==
  /\ \A p \in projects :
       TagsOf(p.request) \cup TagsOf(p.response) \subseteq DOMAIN l2p
  /\ \A e \in endpoints : \A p \in projects :
       e.project = p.id
       => TagsOf(p.request) \cup TagsOf(p.response) \subseteq DOMAIN l2p

\* a name that two rows of the form declare
Duplicated(names) ==
  \E i, j \in 1..Len(names) : i < j /\ names[i] = names[j] /\ names[i] # ""

\* C12 (as stated): a contract definition in which a field name appears twice
\* on one side is rejected; no contract comes out of it in which one of the
\* two declarations has replaced the other.
C12_DuplicateNameRejected ==
  (/\ pf.fn = "form"
   /\ pf.applied
   /\ Len(pf.names) = Len(pf.dtypes)
   /\ Duplicated(pf.names))
  => /\ ~ pf.compiled
     /\ ~ pf.built.ok

\* C13 (as stated): from parallel arrays name[0..n) and dtype[0..n) the
\* contract of the side has exactly one entry name[i] -> [dtype[i], None] for
\* each row i with a non-empty name, and no entry for an empty name.
C13_OneEntryPerRow ==
  (/\ pf.fn = "form"
   /\ pf.applied
   /\ Len(pf.names) = Len(pf.dtypes))
  => /\ pf.built.ok
     /\ \A contract \in {pf.zipped, pf.built.contract} :
          /\ DOMAIN contract =
               {pf.names[i] : i \in {j \in 1..Len(pf.names) : pf.names[j] # ""}}
          /\ \A i \in 1..Len(pf.names) :
               pf.names[i] # "" => contract[pf.names[i]] = <<pf.dtypes[i], None>>

\* the characters call c was metered on
CharsOfCall(c) ==
  model_dump_json_len(calls[c].response) + model_dump_json_len(calls[c].request)
    + calls[c].project.instructions

\* C14: the credits of every persisted Invocation are ceil(chars / rate), the
\* least integer n with n * rate >= chars, where chars is the length of the
\* serialized response plus that of the serialized request plus that of the
\* instructions and rate is 500 for gpt-35-turbo and 50 for gpt-4; this is
\* chars div rate, plus 1 if chars mod rate > 0, and at least 1.
C14_CreditsFormula ==
  \A i \in DOMAIN invs :
    LET chars == CharsOfCall(invs[i].call)
        rate == IF invs[i].model = "gpt-35-turbo" THEN 500 ELSE 50
        credits == invs[i].credits
    IN  /\ invs[i].model \in {"gpt-35-turbo", "gpt-4"}
        /\ credits * rate >= chars
        /\ (credits - 1) * rate < chars
        /\ credits = (chars \div rate) + (IF chars % rate > 0 THEN 1 ELSE 0)
        /\ credits >= 1

\* one Invocation on a whole multiple of the rate and one just above it
C14_Witness ==
  \E i, j \in DOMAIN invs :
    /\ CharsOfCall(invs[i].call) = 50 /\ invs[i].model = "gpt-4"
    /\ invs[i].credits = 1
    /\ CharsOfCall(invs[j].call) = 51 /\ invs[j].model = "gpt-4"
    /\ invs[j].credits = 2

\* the project of call c has a model without a cost rate
UnknownModel(call) ==
  call.project # NoProject /\ call.project.model \notin {"gpt-35-turbo", "gpt-4"}

Relevant ==
  IF pf.kind = "user"
  THEN pf.invocations
  ELSE SelectSeq(pf.invocations, LAMBDA x : x.project = pf.project.id)

\* the count the entity under refresh has stored
StoredCount ==
  IF pf.kind = "user" THEN pf.user.invocations ELSE pf.project.invocations

\* C16: refresh called with as many relevant Invocations as the entity has
\* stored changes no field of the entity and does not save it.
C16_RefreshNoOp ==
  (/\ pf.fn = "refresh"
   /\ pf.applied
   /\ Len(Relevant) = StoredCount)
  => /\ pf.out.user = pf.user
     /\ pf.out.project = pf.project
     /\ ~ pf.out.saved

\* the list changed but not its length: a user and a project are left as
\* they were although a recomputation would give other aggregates
C16_Witness ==
  /\ pf.fn = "refresh"
  /\ pf.applied
  /\ pf.kind = "user"
  /\ Len(Relevant) = StoredCount
  /\ StoredCount = 2
  /\ SumCredits(Relevant) # pf.user.credits_used
  /\ pf.out.user = pf.user
  /\ ~ pf.out.saved

C18_UpdateReplacesBoth ==
  [][upd' # upd
     => \E p \in projects' :
          /\ p.id = upd'.id
          /\ p.request = upd'.request
          /\ p.response = upd'.response
          /\ \E q \in projects : q.id = p.id /\ q.endpoint = p.endpoint]_vars

\* C19: Invocations are append-only. A step persists at most one Invocation,
\* every call persists at most one, and no step of invoke, dashboard,
\* read_project, create_project, update_project or delete_project changes or
\* removes an Invocation that is persisted.
C19_AppendOnly ==
  [][/\ Len(invs') \in {Len(invs), Len(invs) + 1}
     /\ \A i \in DOMAIN invs : invs'[i] = invs[i]
     /\ \A c \in DOMAIN calls : Cardinality(InvsOf(invs', c)) <= 1]_vars

\* two persisted Invocations, counted by a dashboard refresh, on a project
\* that was updated and whose aggregates were recomputed
C19_Witness ==
  /\ Len(invs) = 2
  /\ users["u1"].invocations = 2
  /\ upd.set
  /\ \E p \in projects : p.invocations = 2 /\ p.request = upd.request

\* C20 (as stated): deletion cascades, so every stored Endpoint and every
\* stored Invocation references a stored Project.
C20_DeleteCascades ==
  /\ \A e \in endpoints : \E p \in projects : p.id = e.project
  /\ \A i \in DOMAIN invs : \E p \in projects : p.id = invs[i].project

\* C21: every persisted Invocation holds the validated request and the
\* response of its call if the project the call read had collect_payload
\* set, and None in both fields if it had not.
C21_PayloadIffFlag ==
  \A i \in DOMAIN invs :
    LET call == calls[invs[i].call]
    IN  /\ call.project.collect_payload
           => /\ invs[i].request = [none |-> FALSE, data |-> call.request]
              /\ invs[i].response = [none |-> FALSE, data |-> call.response]
        /\ ~ call.project.collect_payload
           => /\ invs[i].request.none /\ invs[i].request.data = EmptyDict
              /\ invs[i].response.none /\ invs[i].response.data = EmptyDict

\* one Invocation with its payloads and one without, on a project whose flag
\* an update changed in between
C21_Witness ==
  \E i, j \in DOMAIN invs :
    /\ ~ invs[i].request.none
    /\ invs[i].request.data = ("input" :> "s:x")
    /\ invs[i].response.data = ("output" :> "s:x")
    /\ invs[j].request.none /\ invs[j].response.none
    /\ invs[i].project = invs[j].project

\* the login callback that issued the session id and was not followed by a
\* logout of that id
LiveLogins(sid) ==
  {i \in DOMAIN authlog :
     /\ authlog[i].op = "login" /\ authlog[i].sid = sid
     /\ \A j \in DOMAIN authlog :
          j > i => ~ (authlog[j].op = "logout" /\ authlog[j].sid = sid)}

\* C22: after any sequence of login callbacks and logouts, authenticate
\* returns the user of a session id exactly when a login callback issued the
\* id and no logout of it followed; a missing cookie, an unknown id and a
\* logged-out id get 401; a logout leaves every other session as it was.
C22_SessionLifecycle ==
  /\ [](\A cookie \in Cookies :
          LET r == authenticate(session_store, cookie)
          IN  /\ (cookie # 0 /\ LiveLogins(cookie) # {})
                 => /\ r.status = 200
                    /\ \A i \in LiveLogins(cookie) : r.user = authlog[i].user
              /\ (cookie = 0 \/ LiveLogins(cookie) = {}) => r.status = 401)
  /\ [][(Len(authlog') > Len(authlog) /\ authlog'[Len(authlog')].op = "logout")
        => \A sid \in Cookies :
             sid # authlog'[Len(authlog')].sid
             => authenticate(session_store', sid) = authenticate(session_store, sid)]_vars

\* two users signed in, the first logged out: their id gets 401 and the
\* second session still answers with its user
C22_Witness ==
  /\ Len(authlog) = 3
  /\ authlog[1] = [op |-> "login", sid |-> 1, user |-> "u1"]
  /\ authlog[2] = [op |-> "login", sid |-> 2, user |-> "u2"]
  /\ authlog[3] = [op |-> "logout", sid |-> 1, user |-> "none"]
  /\ authenticate(session_store, 1).status = 401
  /\ authenticate(session_store, 2) = [status |-> 200, user |-> "u2"]

\* the call computed its cost and then failed to save its Invocation
SaveFailed(c) ==
  calls[c].pc = "done" /\ calls[c].resp = 500 /\ calls[c].credits > 0

AllSucceeded ==
  /\ \E c \in DOMAIN calls : calls[c].pc = "done"
  /\ \A c \in DOMAIN calls :
       calls[c].pc = "idle" \/ (calls[c].pc = "done" /\ calls[c].resp = 200)

\* C24 (as stated): once overlapping invoke calls, run without a dashboard
\* refresh, have all completed successfully, the stored credits_used of the
\* account is its initial value plus the sum of the credits of the persisted
\* Invocations of those calls.
C24_NoLostDebit ==
  AllSucceeded
  => \A u \in UserIds :
       users[u].credits_used = 0 + SumCredits(find_by_user(invs, u))

\* C25 (as stated): under any interleaving of invoke calls and dashboard
\* refreshes the stored credits_used of an account never decreases.
C25_CreditsMonotone ==
  [][\A u \in UserIds : users'[u].credits_used >= users[u].credits_used]_vars

\* C26: whenever the stored invocations count of an account equals the number
\* of its persisted Invocations, its stored credits_used is the sum of their
\* credits.
C26_CountImpliesSum ==
  \A u \in UserIds :
    users[u].invocations = Len(find_by_user(invs, u))
    => users[u].credits_used = SumCredits(find_by_user(invs, u))

\* two overlapping calls were charged, the second write-back lost the first
\* debit, and a dashboard refresh then stored the count and the sum
C26_Witness ==
  /\ \A c \in DOMAIN calls :
       calls[c].pc = "done" /\ calls[c].resp = 200 /\ calls[c].seen = 0
  /\ Len(invs) = 2
  /\ users["u1"].invocations = 2
  /\ users["u1"].credits_used = SumCredits(invs)
  /\ users["u1"].credits_used > calls[1].user.credits_used
  /\ users["u1"].credits_used > calls[2].user.credits_used

\* C27: when the calls on an account do not overlap and no refresh runs, a
\* call on an existing endpoint is admitted exactly when credits_used <
\* credits_avail, whatever it will cost; the stored credits_used exceeds
\* credits_avail by less than the credits of the last charged Invocation; and
\* no Invocation is persisted by a call that started with credits_used >=
\* credits_avail.
C27_SequentialAdmission ==
  /\ [][\A c \in DOMAIN calls :
          (AdmitStep(c) /\ \E e \in endpoints : e.id = calls'[c].id)
          => IF users["u1"].credits_used < users["u1"].credits_avail
             THEN calls'[c].pc = "llm"
             ELSE calls'[c].pc = "done" /\ calls'[c].resp = 402]_vars
  /\ [](users["u1"].credits_used > users["u1"].credits_avail
        => /\ invs # <<>>
           /\ invs[Len(invs)].credits > 0
           /\ users["u1"].credits_used - users["u1"].credits_avail
                < invs[Len(invs)].credits)
  /\ [](\A i \in DOMAIN invs :
          calls[invs[i].call].seen < users["u1"].credits_avail)

\* a call of 2 credits was admitted with 1 credit left, the account is 1
\* credit over, and the next call was refused
C27_Witness ==
  /\ users["u1"].credits_avail = 3
  /\ users["u1"].credits_used = 4
  /\ Len(invs) = 2
  /\ invs[2].credits = 2
  /\ calls[invs[2].call].seen = 2
  /\ \E c \in DOMAIN calls :
       /\ calls[c].pc = "done" /\ calls[c].resp = 402
       /\ InvsOf(invs, c) = {}

\* the endpoint ids whose project was deleted: an Endpoint is only stored
\* together with its Project
Orphaned == {e.id : e \in {x \in endpoints : \A p \in projects : p.id # x.project}}

\* C28 (as stated): once delete_project has completed for a project, every
\* later invoke with the id of that project's endpoint returns 404, calls no
\* LLM and persists no Invocation.
C28_DeletedEndpoint404 ==
  [][\A c \in DOMAIN calls :
       (AdmitStep(c) /\ calls'[c].id \in Orphaned)
       => /\ calls'[c].pc = "done"
          /\ calls'[c].resp = 404
          /\ calls'[c].llm = "none"
          /\ invs' = invs]_vars

\* C29 (as stated): for a reply with a non-success status code the tool-call
\* client returns no output record, whatever the body of the reply holds.
C29_NonSuccessFails ==
  (/\ pf.fn = "llm"
   /\ pf.applied
   /\ pf.reply.status \notin 200..299)
  => ~ pf.out.ok

\* C30 (as stated): every completion request carries exactly one tool, named
\* structured_response, and a tool_choice that makes the tool call mandatory.
C30_ToolMandatory ==
  (pf.fn = "llm" /\ pf.applied)
  => /\ Len(pf.sent.tools) = 1
     /\ pf.sent.tools[1].function.name = "structured_response"
     /\ \/ pf.sent.tool_choice.mode = "required"
        \/ /\ pf.sent.tool_choice.mode = "function"
           /\ pf.sent.tool_choice.function = "structured_response"

====
